---- MODULE Spec2Model ----
(***************************************************************************)
(* Model of the review sentiment-analysis service:                         *)
(*   app/utils/preprocessing.py  preprocess_text                           *)
(*   app/models/sentiment.py     SentimentAnalyzer.analyze                 *)
(*   app/api/endpoints.py        analyze_sentiment, analyze_batch          *)
(*                                                                         *)
(* Strings.  A Python str is a sequence of one-character strings.  The     *)
(* regular expressions of preprocess_text are modelled character by        *)
(* character on such sequences.                                            *)
(*                                                                         *)
(* Long texts.  The length policy speaks of texts of more than 250 (and    *)
(* 500) words.  A review text is therefore written the way the tests       *)
(* write it ("This product is great. " * 200): as a sequence of runs,      *)
(* run [ph |-> p, n |-> k] standing for the phrase p repeated k times,     *)
(* the copies separated by one space.  In every phrase used, each "<" is   *)
(* closed by a ">" of the same phrase, so no match of any of the regular   *)
(* expressions crosses a phrase boundary and the text operations can be    *)
(* computed run by run, each phrase being processed character by           *)
(* character.                                                              *)
(***************************************************************************)
EXTENDS Integers, Sequences, FiniteSets, TLC

(***************************************************************************)
(* Characters                                                              *)
(***************************************************************************)
UpperCase == <<"A","B","C","D","E","F","G","H","I","J","K","L","M",
               "N","O","P","Q","R","S","T","U","V","W","X","Y","Z">>

LowerCase == <<"a","b","c","d","e","f","g","h","i","j","k","l","m",
               "n","o","p","q","r","s","t","u","v","w","x","y","z">>

Digits == {"0","1","2","3","4","5","6","7","8","9"}

\* \s of the regular expressions, and the separators of str.split()
Whitespace == {" ", "\t", "\n"}

\* \w of the regular expressions
WordChars == {UpperCase[i] : i \in 1..26} \cup {LowerCase[i] : i \in 1..26}
             \cup Digits \cup {"_"}

\* the punctuation [^\w\s.,!?] keeps
KeptPunctuation == {".", ",", "!", "?"}

\* what [^\w\s.,!?] leaves in place
KeptChars == WordChars \cup Whitespace \cup KeptPunctuation

UpperSet == {UpperCase[i] : i \in 1..26}

LowerOf == [c \in UpperSet |-> LowerCase[CHOOSE i \in 1..26 : UpperCase[i] = c]]

\* str.lower() on one character
lower_char(c) == IF c \in UpperSet THEN LowerOf[c] ELSE c

(***************************************************************************)
(* str operations                                                          *)
(***************************************************************************)
Min(a, b) == IF a <= b THEN a ELSE b

\* s[i:] for a 1-based i
DropTo(s, i) == SubSeq(s, i, Len(s))

\* s.startswith(p)
StartsWith(s, p) == Len(s) >= Len(p) /\ SubSeq(s, 1, Len(p)) = p

\* text.lower()
str_lower(s) == [i \in 1..Len(s) |-> lower_char(s[i])]

\* end of the run of non-whitespace characters (\S+) that starts at i
RECURSIVE NonSpaceEnd(_, _)
NonSpaceEnd(s, i) ==
    IF i < Len(s) /\ s[i + 1] \notin Whitespace THEN NonSpaceEnd(s, i + 1) ELSE i

\* re.sub(r'<.*?>', '', text): "." matches no newline, "*?" stops at the
\* first ">"
RECURSIVE sub_tags(_)
sub_tags(s) ==
    IF s = <<>> THEN <<>>
    ELSE IF /\ Head(s) = "<"
            /\ \E j \in 2..Len(s) :
                  /\ s[j] = ">"
                  /\ \A k \in 2..(j - 1) : s[k] \notin {">", "\n"}
         THEN LET j == CHOOSE j \in 2..Len(s) :
                          /\ s[j] = ">"
                          /\ \A k \in 2..(j - 1) : s[k] \notin {">", "\n"}
              IN  sub_tags(DropTo(s, j + 1))
         ELSE <<Head(s)>> \o sub_tags(Tail(s))

\* length of the literal prefix of r'https?://\S+|www\.\S+' matched at the
\* head of s; 0 when none is
UrlPrefixLen(s) ==
    IF StartsWith(s, <<"h","t","t","p","s",":","/","/">>) THEN 8
    ELSE IF StartsWith(s, <<"h","t","t","p",":","/","/">>) THEN 7
    ELSE IF StartsWith(s, <<"w","w","w",".">>) THEN 4
    ELSE 0

\* re.sub(r'https?://\S+|www\.\S+', '', text)
RECURSIVE sub_urls(_)
sub_urls(s) ==
    IF s = <<>> THEN <<>>
    ELSE LET p == UrlPrefixLen(s)
         IN  IF p > 0 /\ Len(s) > p /\ s[p + 1] \notin Whitespace
             THEN sub_urls(DropTo(s, NonSpaceEnd(s, p + 1) + 1))
             ELSE <<Head(s)>> \o sub_urls(Tail(s))

\* re.sub(r'[^\w\s.,!?]', '', text)
sub_special(s) ==
    SelectSeq(s, LAMBDA c : c \in KeptChars)

\* text.lstrip() and text.rstrip()
RECURSIVE str_lstrip(_)
str_lstrip(s) ==
    IF s # <<>> /\ Head(s) \in Whitespace THEN str_lstrip(Tail(s)) ELSE s

RECURSIVE str_rstrip(_)
str_rstrip(s) ==
    IF s # <<>> /\ s[Len(s)] \in Whitespace
    THEN str_rstrip(SubSeq(s, 1, Len(s) - 1))
    ELSE s

\* text.strip()
str_strip(s) == str_rstrip(str_lstrip(s))

\* re.sub(r'\s+', ' ', text)
RECURSIVE sub_spaces(_)
sub_spaces(s) ==
    IF s = <<>> THEN <<>>
    ELSE IF Head(s) \in Whitespace
         THEN <<" ">> \o sub_spaces(str_lstrip(s))
         ELSE <<Head(s)>> \o sub_spaces(Tail(s))

\* preprocess_text(text) on a str
preprocess_text(s) ==
    LET lowered  == str_lower(s)
        no_tags  == sub_tags(lowered)
        no_urls  == sub_urls(no_tags)
        filtered == sub_special(no_urls)
    IN  str_strip(sub_spaces(filtered))

\* text.split(): the maximal runs of non-whitespace characters
RECURSIVE str_split(_)
str_split(s) ==
    LET t == str_lstrip(s)
    IN  IF t = <<>> THEN <<>>
        ELSE LET e == NonSpaceEnd(t, 1)
             IN  <<SubSeq(t, 1, e)>> \o str_split(DropTo(t, e + 1))

\* " ".join(words)
RECURSIVE str_join(_)
str_join(words) ==
    IF words = <<>> THEN <<>>
    ELSE IF Len(words) = 1 THEN words[1]
    ELSE words[1] \o <<" ">> \o str_join(Tail(words))

(***************************************************************************)
(* The same operations on a text written as runs of phrases                *)
(***************************************************************************)
\* len(text.split())
RECURSIVE WordCount(_)
WordCount(text) ==
    IF text = <<>> THEN 0
    ELSE Head(text).n * Len(str_split(Head(text).ph)) + WordCount(Tail(text))

\* preprocess_text(text): every copy of a phrase is cleaned alike; a phrase
\* that cleans to the empty string leaves nothing, not even its separator
RECURSIVE preprocess_runs(_)
preprocess_runs(text) ==
    IF text = <<>> THEN <<>>
    ELSE LET p == preprocess_text(Head(text).ph)
         IN  (IF p = <<>> THEN <<>> ELSE <<[ph |-> p, n |-> Head(text).n]>>)
             \o preprocess_runs(Tail(text))

\* " ".join(text.split()[:limit])
RECURSIVE first_words(_, _)
first_words(text, limit) ==
    IF text = <<>> \/ limit = 0 THEN <<>>
    ELSE LET w    == str_split(Head(text).ph)
             k    == Len(w)
             full == IF k = 0 THEN 0 ELSE Min(Head(text).n, limit \div k)
             left == limit - full * k
         IN  IF k = 0 THEN first_words(Tail(text), limit)
             ELSE IF full = Head(text).n
             THEN <<[ph |-> str_join(w), n |-> full]>>
                  \o first_words(Tail(text), left)
             ELSE (IF full > 0 THEN <<[ph |-> str_join(w), n |-> full]>> ELSE <<>>)
                  \o (IF left > 0
                      THEN <<[ph |-> str_join(SubSeq(w, 1, left)), n |-> 1]>>
                      ELSE <<>>)

(***************************************************************************)
(* Bounds and inputs                                                       *)
(***************************************************************************)
\* most reviews in a batch the model sends (the service accepts up to 100)
MaxBatch == 2

\* scores are fractions k / ScoreScale, k in 0..ScoreScale
ScoreScale == 100

\* the word threshold of both handlers (len(words) > 250)
WordLimit == 250

\* the cut of analyze_sentiment (split()[:500])
SingleCut == 500

\* the cut of analyze_batch (split()[:250])
BatchCut == 250

\* the cut of SentimentAnalyzer.analyze (words[:250])
AnalyzerLimit == 250

None == "None"

\* a JSON field the client left out
Absent == "absent"

PhGood    == <<"G","o","o","d","!">>
PhTag     == <<"<","b","r"," ","/",">">>
PhBad     == <<"N","o","t"," ","g","o","o","d",".">>
PhProduct == <<"T","h","i","s"," ","p","r","o","d","u","c","t"," ",
               "i","s"," ","g","r","e","a","t",".">>
PhLink    == <<"s","e","e"," ","h","t","t","p",":","/","/","x",".","y">>

\* 250 words: at the threshold, not over it
TextAtLimit == <<[ph |-> PhGood, n |-> 250]>>

\* 252 words, 250 once cleaned: the tag's two words vanish
TextShrinks == <<[ph |-> PhGood, n |-> 250], [ph |-> PhTag, n |-> 1]>>

\* 252 words, 252 once cleaned
TextOver == <<[ph |-> PhBad, n |-> 126]>>

\* "This product is great. " * 200 of the tests: 800 words
TextLong == <<[ph |-> PhProduct, n |-> 200]>>

\* 2 words, 1 once cleaned
TextShort == <<[ph |-> PhLink, n |-> 1]>>

Texts == {TextAtLimit, TextShrinks, TextOver, TextLong}

Labels == {"POSITIVE", "NEGATIVE"}

Scores == 0..ScoreScale

\* what one call of sentiment_pipeline does in the request handlers: it
\* raises, or answers POSITIVE with score 1.0, or NEGATIVE with score 0.5
\* (every label with every score is given to the mapping under SpecMap)
Raise == [label |-> "raise", score |-> 0]

PipelineOutcomes ==
    { Raise,
      [label |-> "POSITIVE", score |-> ScoreScale],
      [label |-> "NEGATIVE", score |-> ScoreScale \div 2] }

\* no call of the pipeline was made for the review
NoResult == [label |-> "none", score |-> 0]

\* the answers the pipeline can give when the handler gets as far as
\* calling it; the same answer as before when the review was classified
\* in the request before
Answers(policy, known, k) ==
    IF policy.rejected THEN {NoResult}
    ELSE IF k <= Len(known) /\ known[k] # NoResult THEN {known[k]}
    ELSE PipelineOutcomes

\* the answers so far, with the answer for review k
Remember(known, k, outcome) ==
    IF k <= Len(known) THEN [known EXCEPT ![k] = outcome]
    ELSE Append(known, outcome)

\* the JSON values of a review's truncate field
TruncateJson == {"true", "false", Absent}

BatchIds == <<"batch1", "batch2", "batch3", "batch4">>

(***************************************************************************)
(* Request models (pydantic)                                               *)
(***************************************************************************)
\* ReviewRequest(**body): a field left out takes the default of its Field
ReviewRequest(body) ==
    [ text      |-> body.text,
      review_id |-> body.review_id,
      source    |-> body.source,
      truncate  |-> IF body.truncate = Absent THEN TRUE
                    ELSE body.truncate = "true" ]

\* BatchReviewRequest(**body): every review is parsed as a ReviewRequest
BatchReviewRequest(bodies, global) ==
    [ reviews  |-> [k \in 1..Len(bodies) |-> ReviewRequest(bodies[k])],
      truncate |-> global ]

\* hasattr(review, 'truncate'): truncate is a declared field of the model,
\* so every instance has the attribute
HasTruncate(review) == "truncate" \in DOMAIN review

(***************************************************************************)
(* SentimentAnalyzer.analyze                                               *)
(***************************************************************************)
\* a variant of pipeline_input: the analyzer hands the text over as it is
pipeline_input_uncut(text) == text

\* a variant of pipeline_input: analyze cuts where analyze_sentiment cuts
pipeline_input_cut_late(text) ==
    IF WordCount(text) > SingleCut
    THEN first_words(text, SingleCut)
    ELSE text

\* the text analyze hands to self.sentiment_pipeline
pipeline_input(text) ==
    IF WordCount(text) > AnalyzerLimit
    THEN first_words(text, AnalyzerLimit)
    ELSE text

\* a variant of score_map: normalized_score is the score, whatever the label
score_map_unsigned(label, score) ==
    LET sentiment == IF label = "POSITIVE" THEN "positive" ELSE "negative"
    IN  [ sentiment        |-> sentiment,
          confidence       |-> score,
          normalized_score |-> score,
          detailed_scores  |->
              [ POSITIVE |-> IF sentiment = "positive" THEN score
                             ELSE ScoreScale - score,
                NEGATIVE |-> IF sentiment = "negative" THEN score
                             ELSE ScoreScale - score ] ]

\* a variant of score_map: both entries of detailed_scores are the score
score_map_same_scores(label, score) ==
    LET sentiment == IF label = "POSITIVE" THEN "positive" ELSE "negative"
    IN  [ sentiment        |-> sentiment,
          confidence       |-> score,
          normalized_score |-> IF sentiment = "positive" THEN score ELSE 0 - score,
          detailed_scores  |-> [ POSITIVE |-> score, NEGATIVE |-> score ] ]

\* the dict analyze builds from result['label'] and result['score']
score_map(label, score) ==
    LET sentiment == IF label = "POSITIVE" THEN "positive" ELSE "negative"
    IN  [ sentiment        |-> sentiment,
          confidence       |-> score,
          normalized_score |-> IF sentiment = "positive" THEN score ELSE 0 - score,
          detailed_scores  |->
              [ POSITIVE |-> IF sentiment = "positive" THEN score
                             ELSE ScoreScale - score,
                NEGATIVE |-> IF sentiment = "negative" THEN score
                             ELSE ScoreScale - score ] ]

\* analyze(text) when the pipeline answers with outcome: the text handed to
\* the pipeline, whether the call raised, and the dict returned
analyze(text, outcome) ==
    [ handed |-> pipeline_input(text),
      raised |-> outcome = Raise,
      dict   |-> IF outcome = Raise THEN None
                 ELSE score_map(outcome.label, outcome.score) ]

\* SentimentResponse(**analysis_results, review_id=, source=, truncated=)
SentimentResponse(dict, review_id, source, truncated) ==
    [ sentiment        |-> dict.sentiment,
      confidence       |-> dict.confidence,
      normalized_score |-> dict.normalized_score,
      detailed_scores  |-> dict.detailed_scores,
      review_id        |-> review_id,
      source           |-> source,
      truncated        |-> truncated ]

(***************************************************************************)
(* The request handlers, one review at a time                              *)
(*                                                                         *)
(* What a handler does with one review is given in two parts.  The first   *)
(* (single_policy, batch_policy) is the code up to the call of the         *)
(* analyzer: the length check, the preprocessing, the cut.                 *)
(*   rejected        an HTTPException(400) was raised                      *)
(*   detail          which raise it was                                    *)
(*   truncated       was_truncated and review.truncate                     *)
(*   processed_text  the text that goes to sentiment_analyzer.analyze      *)
(*   stages          the stages the review went through so far             *)
(* The second (single_respond, batch_respond) is the call of the analyzer  *)
(* and the SentimentResponse built from what it returns.                   *)
(*   status  200, or the status_code of the HTTPException raised           *)
(*   handed  the texts handed to the pipeline (none, or one)               *)
(*   item    the SentimentResponse built (status 200 only)                 *)
(***************************************************************************)
\* raise HTTPException(status_code=400, ...) of the check on the raw text
RejectedEarly ==
    [ rejected |-> TRUE, detail |-> "exceeds token limit", truncated |-> FALSE,
      processed_text |-> <<>>,
      stages |-> <<"Received", "LengthChecked", "Rejected">> ]

\* a variant of single_policy: the threshold is len(words) >= 250
single_policy_at_limit(review) ==
    LET was_truncated == WordCount(review.text) >= WordLimit
        cleaned       == preprocess_runs(review.text)
    IN  IF was_truncated /\ ~review.truncate
        THEN RejectedEarly
        ELSE IF was_truncated /\ review.truncate
        THEN [ rejected |-> FALSE, detail |-> None, truncated |-> TRUE,
               processed_text |-> first_words(cleaned, SingleCut),
               stages |-> <<"Received", "LengthChecked", "Normalized",
                            "Truncated">> ]
        ELSE [ rejected |-> FALSE, detail |-> None, truncated |-> FALSE,
               processed_text |-> cleaned,
               stages |-> <<"Received", "LengthChecked", "Normalized">> ]

\* analyze_sentiment, lines 61-76
single_policy(review) ==
    LET was_truncated == WordCount(review.text) > WordLimit
        cleaned       == preprocess_runs(review.text)
    IN  IF was_truncated /\ ~review.truncate
        THEN RejectedEarly
        ELSE IF was_truncated /\ review.truncate
        THEN [ rejected |-> FALSE, detail |-> None, truncated |-> TRUE,
               processed_text |-> first_words(cleaned, SingleCut),
               stages |-> <<"Received", "LengthChecked", "Normalized",
                            "Truncated">> ]
        ELSE [ rejected |-> FALSE, detail |-> None,
               truncated |-> was_truncated /\ review.truncate,
               processed_text |-> cleaned,
               stages |-> <<"Received", "LengthChecked", "Normalized">> ]

\* analyze_sentiment, lines 78-93
single_respond(policy, review, outcome) ==
    LET analysis_results == analyze(policy.processed_text, outcome)
    IN  IF policy.rejected
        THEN [ status |-> 400, detail |-> policy.detail, handed |-> <<>>,
               stages |-> policy.stages, item |-> None ]
        ELSE IF analysis_results.raised
        THEN [ status |-> 500, detail |-> "Error analyzing sentiment",
               handed |-> <<analysis_results.handed>>,
               stages |-> policy.stages \o <<"Failed">>, item |-> None ]
        ELSE [ status |-> 200, detail |-> None,
               handed |-> <<analysis_results.handed>>,
               stages |-> policy.stages
                          \o <<"Classified", "Mapped", "Assembled">>,
               item   |-> SentimentResponse(analysis_results.dict,
                              review.review_id, review.source,
                              policy.truncated) ]

\* a variant of effective_truncate: the global flag decides
effective_truncate_global(review, global) == global

\* analyze_batch, lines 113-115: the flag the loop body goes by
effective_truncate(review, global) ==
    IF ~HasTruncate(review) THEN global ELSE review.truncate

\* a variant of batch_policy: the only length check is the one on the
\* preprocessed text
batch_policy_cleaned_only(review, global) ==
    LET truncate      == effective_truncate(review, global)
        was_truncated == WordCount(review.text) > WordLimit
        cleaned       == preprocess_runs(review.text)
        processed_text ==
            IF was_truncated /\ truncate
            THEN first_words(cleaned, BatchCut)
            ELSE cleaned
        before == <<"Received", "Normalized">>
                  \o (IF was_truncated /\ truncate
                      THEN <<"Truncated">> ELSE <<>>)
                  \o <<"LengthChecked">>
    IN  IF WordCount(processed_text) > WordLimit /\ ~truncate
        THEN [ rejected |-> TRUE, detail |-> "too long after preprocessing",
               truncated |-> FALSE, processed_text |-> <<>>,
               stages |-> before \o <<"Rejected">> ]
        ELSE [ rejected |-> FALSE, detail |-> None,
               truncated |-> was_truncated /\ truncate,
               processed_text |-> processed_text,
               stages |-> before ]

\* analyze_batch, lines 113-142
batch_policy(review, global) ==
    LET truncate      == effective_truncate(review, global)
        was_truncated == WordCount(review.text) > WordLimit
        cleaned       == preprocess_runs(review.text)
        processed_text ==
            IF was_truncated /\ truncate
            THEN first_words(cleaned, BatchCut)
            ELSE cleaned
        before == <<"Received", "LengthChecked", "Normalized">>
                  \o (IF was_truncated /\ truncate
                      THEN <<"Truncated">> ELSE <<>>)
                  \o <<"LengthChecked">>
    IN  IF was_truncated /\ ~truncate
        THEN RejectedEarly
        ELSE IF WordCount(processed_text) > WordLimit /\ ~truncate
        THEN [ rejected |-> TRUE, detail |-> "too long after preprocessing",
               truncated |-> FALSE, processed_text |-> <<>>,
               stages |-> before \o <<"Rejected">> ]
        ELSE [ rejected |-> FALSE, detail |-> None,
               truncated |-> was_truncated /\ truncate,
               processed_text |-> processed_text,
               stages |-> before ]

\* a variant of batch_respond: an exception of the analyzer is caught in
\* the loop and the review gets a neutral result
batch_respond_swallow(policy, review, outcome) ==
    LET analysis_results == analyze(policy.processed_text, outcome)
        dict == IF analysis_results.raised
                THEN score_map("NEGATIVE", 0)
                ELSE analysis_results.dict
    IN  IF policy.rejected
        THEN [ status |-> 400, detail |-> policy.detail, handed |-> <<>>,
               stages |-> policy.stages, item |-> None ]
        ELSE [ status |-> 200, detail |-> None,
               handed |-> <<analysis_results.handed>>,
               stages |-> policy.stages
                          \o <<"Classified", "Mapped", "Assembled">>,
               item   |-> SentimentResponse(dict, review.review_id,
                              review.source, policy.truncated) ]

\* a variant of batch_respond: the analyzer is called before the
\* HTTPException of the length check is raised
batch_respond_classify_first(policy, review, outcome) ==
    LET analysis_results == analyze(policy.processed_text, outcome)
    IN  IF policy.rejected
        THEN [ status |-> 400, detail |-> policy.detail,
               handed |-> <<analysis_results.handed>>,
               stages |-> policy.stages, item |-> None ]
        ELSE IF analysis_results.raised
        THEN [ status |-> 500, detail |-> "Error analyzing batch sentiment",
               handed |-> <<analysis_results.handed>>,
               stages |-> policy.stages \o <<"Failed">>, item |-> None ]
        ELSE [ status |-> 200, detail |-> None,
               handed |-> <<analysis_results.handed>>,
               stages |-> policy.stages
                          \o <<"Classified", "Mapped", "Assembled">>,
               item   |-> SentimentResponse(analysis_results.dict,
                              review.review_id, review.source,
                              policy.truncated) ]

\* analyze_batch, lines 144-159
batch_respond(policy, review, outcome) ==
    LET analysis_results == analyze(policy.processed_text, outcome)
    IN  IF policy.rejected
        THEN [ status |-> 400, detail |-> policy.detail, handed |-> <<>>,
               stages |-> policy.stages, item |-> None ]
        ELSE IF analysis_results.raised
        THEN [ status |-> 500, detail |-> "Error analyzing batch sentiment",
               handed |-> <<analysis_results.handed>>,
               stages |-> policy.stages \o <<"Failed">>, item |-> None ]
        ELSE [ status |-> 200, detail |-> None,
               handed |-> <<analysis_results.handed>>,
               stages |-> policy.stages
                          \o <<"Classified", "Mapped", "Assembled">>,
               item   |-> SentimentResponse(analysis_results.dict,
                              review.review_id, review.source,
                              policy.truncated) ]

(***************************************************************************)
(* State                                                                   *)
(***************************************************************************)
VARIABLES
    endpoint,   \* the handler serving the request: "none", "analyze", "batch"
    body,       \* the JSON body as the client sent it
    request,    \* the parsed body: a BatchReviewRequest (for /analyze, the
                \* one review is request.reviews[1])
    pc,         \* "idle": no request yet; "loop": in analyze_batch's for
                \* loop; "done": the response is sent
    i,          \* 1-based position of the for loop in request.reviews
    results,    \* the local list results of analyze_batch
    oracle,     \* what the pipeline answers for each review reached so far
                \* (the classifier is deterministic: a request sent again
                \* gets the same answers)
    calls,      \* the calls of sentiment_pipeline made for this request, in
                \* order: the review's position and the text handed over
    stages,     \* per review reached, the stages it went through
    response,   \* the HTTP response
    previous,   \* the response to the request before this one, once the
                \* client has sent the batch again
    raw_result, \* a pipeline result result[0] given to analyze's mapping
    mapped,     \* the dict analyze returns for raw_result
    norm_text,  \* a string given to preprocess_text
    norm_passes,    \* what preprocess_text returned for norm_text, and what
                    \* it returned when given its own result
    single_before   \* the response of POST /analyze and the calls of
                    \* sentiment_pipeline it made, once the client has sent
                    \* the same review to POST /analyze/batch

vars == <<endpoint, body, request, pc, i, results, oracle, calls, stages, response,
          previous, raw_result, mapped, norm_text, norm_passes, single_before>>

NoRequest  == [reviews |-> <<>>, truncate |-> TRUE]
NoBody     == [reviews |-> <<>>, truncate |-> TRUE]
NoResponse == [status |-> 0]
NotMapped  == [sentiment |-> "none"]
NoSingle   == [response |-> NoResponse, calls |-> <<>>]

\* a variant of append_result: results.insert(0, ...)
prepend_result(list, item) == <<item>> \o list

\* results.append(SentimentResponse(...))
append_result(list, item) == Append(list, item)

\* return response / return BatchSentimentResponse(results=results)
OkResponse(items) == [status |-> 200, results |-> items]

\* the HTTPException that leaves the handler: its status code and what the
\* detail says
ErrorResponse(step, review) ==
    [ status |-> step.status, detail |-> step.detail,
      review_id |-> IF step.detail = "exceeds token limit"
                    THEN review.review_id ELSE None ]

Init ==
    /\ endpoint = "none"
    /\ body = NoBody
    /\ request = NoRequest
    /\ pc = "idle"
    /\ i = 0
    /\ results = <<>>
    /\ oracle = <<>>
    /\ calls = <<>>
    /\ stages = <<>>
    /\ response = NoResponse
    /\ previous = NoResponse
    /\ raw_result = NoResult
    /\ mapped = NotMapped
    /\ norm_text = <<>>
    /\ norm_passes = <<>>
    /\ single_before = NoSingle

(***************************************************************************)
(* POST /analyze                                                           *)
(***************************************************************************)
SingleBodies ==
    [ text : Texts \cup {TextShort}, truncate : TruncateJson,
      review_id : {None, "test123"}, source : {None, "website"} ]

analyze_sentiment ==
    /\ pc = "idle"
    /\ \E json \in SingleBodies :
        \E policy \in {single_policy(ReviewRequest(json))} :
        \E outcome \in Answers(policy, <<>>, 1) :
          LET review == ReviewRequest(json)
              step   == single_respond(policy, review, outcome)
          IN  /\ endpoint' = "analyze"
              /\ body' = [reviews |-> <<json>>, truncate |-> TRUE]
              /\ request' = [reviews |-> <<review>>, truncate |-> TRUE]
              /\ i' = 1
              /\ oracle' = <<outcome>>
              /\ calls' = [k \in 1..Len(step.handed) |->
                              [item |-> 1, text |-> step.handed[k]]]
              /\ stages' = <<step.stages>>
              /\ response' = IF step.status = 200
                             THEN [status |-> 200, result |-> step.item]
                             ELSE ErrorResponse(step, review)
    /\ pc' = "done"
    /\ UNCHANGED <<results, previous, raw_result, mapped,
                   norm_text, norm_passes, single_before>>

(***************************************************************************)
(* POST /analyze/batch                                                     *)
(***************************************************************************)
\* the reviews of a batch of n: any text and any truncate field; the
\* client numbers its reviews, and names a source for every other one
BatchBodies(n) ==
    { [k \in 1..n |-> [ text |-> texts[k], truncate |-> flags[k],
                        review_id |-> BatchIds[k],
                        source |-> IF k % 2 = 1 THEN "website" ELSE None ]] :
        texts \in [1..n -> Texts], flags \in [1..n -> TruncateJson] }

\* the request arrives and is parsed; results = []
analyze_batch_enter ==
    /\ pc = "idle"
    /\ \E n \in 1..MaxBatch, global \in BOOLEAN :
          \E bodies \in BatchBodies(n) :
              /\ body' = [reviews |-> bodies, truncate |-> global]
              /\ request' = BatchReviewRequest(bodies, global)
    /\ endpoint' = "batch"
    /\ pc' = "loop"
    /\ i' = 1
    /\ results' = <<>>
    /\ UNCHANGED <<oracle, calls, stages, response, previous, raw_result, mapped,
                   norm_text, norm_passes, single_before>>

\* one pass of "for review in request.reviews": the review is appended to
\* results, or the HTTPException it raises ends the request
analyze_batch_review ==
    /\ pc = "loop"
    /\ i <= Len(request.reviews)
    /\ \E policy \in {batch_policy(request.reviews[i], request.truncate)} :
        \E outcome \in Answers(policy, oracle, i) :
          /\ LET review == request.reviews[i]
                 step   == batch_respond(policy, review, outcome)
             IN  /\ oracle' = Remember(oracle, i, outcome)
                 /\ calls' = calls \o [k \in 1..Len(step.handed) |->
                                          [item |-> i, text |-> step.handed[k]]]
                 /\ stages' = Append(stages, step.stages)
                 /\ IF step.status = 200
                    THEN /\ results' = append_result(results, step.item)
                         /\ i' = i + 1
                         /\ UNCHANGED <<pc, response>>
                    ELSE /\ response' = ErrorResponse(step, review)
                         /\ pc' = "done"
                         /\ UNCHANGED <<results, i>>
    /\ UNCHANGED <<endpoint, body, request, previous, raw_result, mapped,
                   norm_text, norm_passes, single_before>>

\* return BatchSentimentResponse(results=results)
analyze_batch_return ==
    /\ pc = "loop"
    /\ i > Len(request.reviews)
    /\ response' = OkResponse(results)
    /\ pc' = "done"
    /\ UNCHANGED <<endpoint, body, request, i, results, oracle, calls, stages,
                   previous, raw_result, mapped,
                   norm_text, norm_passes, single_before>>

\* the client sends the same reviews again with the other global truncate
resend_batch ==
    /\ pc = "done"
    /\ endpoint = "batch"
    /\ previous = NoResponse
    /\ previous' = response
    /\ body' = [body EXCEPT !.truncate = ~@]
    /\ request' = BatchReviewRequest(body.reviews, ~body.truncate)
    /\ pc' = "loop"
    /\ i' = 1
    /\ results' = <<>>
    /\ calls' = <<>>
    /\ stages' = <<>>
    /\ response' = NoResponse
    /\ UNCHANGED <<endpoint, oracle, raw_result, mapped,
                   norm_text, norm_passes, single_before>>

\* the client sends the review it sent to POST /analyze to POST
\* /analyze/batch, as a batch of one, under either global truncate
analyze_batch_same_review ==
    /\ pc = "done"
    /\ endpoint = "analyze"
    /\ single_before = NoSingle
    /\ single_before' = [response |-> response, calls |-> calls]
    /\ \E global \in BOOLEAN :
          /\ body' = [reviews |-> body.reviews, truncate |-> global]
          /\ request' = BatchReviewRequest(body.reviews, global)
    /\ endpoint' = "batch"
    /\ pc' = "loop"
    /\ i' = 1
    /\ results' = <<>>
    /\ calls' = <<>>
    /\ stages' = <<>>
    /\ response' = NoResponse
    /\ UNCHANGED <<oracle, previous, raw_result, mapped, norm_text, norm_passes>>

Next ==
    \/ analyze_sentiment
    \/ analyze_batch_enter
    \/ analyze_batch_review
    \/ analyze_batch_return
    \/ resend_batch
    \/ analyze_batch_same_review

Spec == Init /\ [][Next]_vars

(***************************************************************************)
(* SentimentAnalyzer.analyze, lines 35-54, on its own: any label with any  *)
(* score k / ScoreScale is given to the mapping                            *)
(***************************************************************************)
InitMap ==
    /\ endpoint = "none"
    /\ body = NoBody
    /\ request = NoRequest
    /\ pc = "idle"
    /\ i = 0
    /\ results = <<>>
    /\ oracle = <<>>
    /\ calls = <<>>
    /\ stages = <<>>
    /\ response = NoResponse
    /\ previous = NoResponse
    /\ raw_result \in [label : Labels, score : Scores]
    /\ mapped = NotMapped
    /\ norm_text = <<>>
    /\ norm_passes = <<>>
    /\ single_before = NoSingle

map_result ==
    /\ mapped = NotMapped
    /\ mapped' = score_map(raw_result.label, raw_result.score)
    /\ UNCHANGED <<endpoint, body, request, pc, i, results, oracle, calls,
                   stages, response, previous, raw_result,
                   norm_text, norm_passes, single_before>>

NextMap == map_result

SpecMap == InitMap /\ [][NextMap]_vars

(***************************************************************************)
(* preprocess_text on its own: a short string is cleaned, and the result   *)
(* is cleaned again                                                        *)
(***************************************************************************)
MaxFrags == 4

\* the pieces the strings are made of: what the patterns of preprocess_text
\* look for, and what they leave alone
Fragments ==
    { <<"w", "w", "w">>, <<".">>, <<"&">>, <<" ">>, <<"\n">>, <<"<">>, <<">">>,
      <<"h", "t", "t", "p">>, <<":", "/", "/">>, <<"X">> }

RECURSIVE Concat(_)
Concat(pieces) ==
    IF pieces = <<>> THEN <<>> ELSE Head(pieces) \o Concat(Tail(pieces))

\* the strings of at most MaxFrags pieces
NormTexts ==
    { Concat(pieces) : pieces \in UNION { [1..n -> Fragments] : n \in 0..MaxFrags } }

InitNorm ==
    /\ endpoint = "none"
    /\ body = NoBody
    /\ request = NoRequest
    /\ pc = "idle"
    /\ i = 0
    /\ results = <<>>
    /\ oracle = <<>>
    /\ calls = <<>>
    /\ stages = <<>>
    /\ response = NoResponse
    /\ previous = NoResponse
    /\ raw_result = NoResult
    /\ mapped = NotMapped
    /\ norm_text \in NormTexts
    /\ norm_passes = <<>>
    /\ single_before = NoSingle

\* processed_text = preprocess_text(review.text)
preprocess_once ==
    /\ norm_passes = <<>>
    /\ norm_passes' = <<preprocess_text(norm_text)>>
    /\ UNCHANGED <<endpoint, body, request, pc, i, results, oracle, calls,
                   stages, response, previous, raw_result, mapped,
                   norm_text, single_before>>

\* preprocess_text called on what preprocess_text returned
preprocess_again ==
    /\ Len(norm_passes) = 1
    /\ norm_passes' = Append(norm_passes, preprocess_text(norm_passes[1]))
    /\ UNCHANGED <<endpoint, body, request, pc, i, results, oracle, calls,
                   stages, response, previous, raw_result, mapped,
                   norm_text, single_before>>

NextNorm ==
    \/ preprocess_once
    \/ preprocess_again

SpecNorm == InitNorm /\ [][NextNorm]_vars

(***************************************************************************)
(* Vocabulary of the properties                                            *)
(***************************************************************************)
NumReviews == Len(request.reviews)

\* the reviews the handler has begun to process
Reached == 1..Len(stages)

RawWords(k) == WordCount(request.reviews[k].text)

CleanWords(k) == WordCount(preprocess_runs(request.reviews[k].text))

OverLimit(k) == RawWords(k) > WordLimit

\* the positions in calls of the pipeline calls made for review k
CallsFor(k) == {p \in 1..Len(calls) : calls[p].item = k}

Range(seq) == {seq[p] : p \in 1..Len(seq)}

Last(seq) == seq[Len(seq)]

\* review k has its SentimentResponse
HasResult(k) ==
    IF endpoint = "analyze"
    THEN k = 1 /\ pc = "done" /\ response.status = 200
    ELSE k <= Len(results)

ResultOf(k) == IF endpoint = "analyze" THEN response.result ELSE results[k]

\* review k is one the length policy rejects, or one whose classification
\* raised
Violates(k) == OverLimit(k) /\ ~request.reviews[k].truncate

Offending(k) ==
    Violates(k) \/ (k <= Len(oracle) /\ oracle[k] = Raise)

C2_LongTruncatedIsCut ==
    \A k \in Reached :
        (OverLimit(k) /\ request.reviews[k].truncate) =>
            /\ "Rejected" \notin Range(stages[k])
            /\ CallsFor(k) # {}
            /\ \A p \in CallsFor(k) : WordCount(calls[p].text) <= BatchCut
            /\ HasResult(k) => ResultOf(k).truncated

\* POST /analyze with a text of more than 500 cleaned words: the handler
\* cut at 500, the analyzer at 250
C2_Witness ==
    /\ endpoint = "analyze"
    /\ pc = "done"
    /\ response.status = 200
    /\ request.reviews[1].truncate
    /\ CleanWords(1) > SingleCut
    /\ WordCount(calls[1].text) = AnalyzerLimit
    /\ response.result.truncated

(***************************************************************************)
(* C3: a review of at most 250 words, whatever its truncate flag, is not   *)
(* rejected, its result has truncated = false, and the text handed to the  *)
(* pipeline is the cleaned text itself: neither the handler nor the        *)
(* analyzer's 250-word cut drops a word.                                   *)
(***************************************************************************)
C3_ShortTextUntouched ==
    \A k \in Reached :
        ~OverLimit(k) =>
            /\ "Rejected" \notin Range(stages[k])
            /\ "Truncated" \notin Range(stages[k])
            /\ CallsFor(k) # {}
            /\ \A p \in CallsFor(k) :
                  calls[p].text = preprocess_runs(request.reviews[k].text)
            /\ HasResult(k) => ~ResultOf(k).truncated

\* a review of exactly 250 words sent with truncate false is classified
\* whole
C3_Witness ==
    /\ pc = "done"
    /\ response.status = 200
    /\ RawWords(1) = WordLimit
    /\ ~request.reviews[1].truncate
    /\ WordCount(calls[1].text) = WordLimit
    /\ ~ResultOf(1).truncated

C5_OmittedFlagUsesGlobal ==
    endpoint = "batch" =>
        \A k \in Reached :
            ( /\ body.reviews[k].truncate = Absent
              /\ OverLimit(k)
              /\ ~body.truncate ) =>
                /\ Last(stages[k]) = "Rejected"
                /\ pc = "done" => response.status = 400

(***************************************************************************)
(* C6: a batch is all or nothing: when a review of the batch is rejected   *)
(* by the length policy or its classification raises, the response is one  *)
(* error, the error of the first such review in input order, and it holds  *)
(* no results, not even those of the reviews classified before it.         *)
(***************************************************************************)
C6_BatchAllOrNothing ==
    (endpoint = "batch" /\ pc = "done") =>
        /\ (\E k \in 1..NumReviews : Offending(k)) <=> response.status # 200
        /\ response.status # 200 =>
              /\ "results" \notin DOMAIN response
              /\ Offending(i)
              /\ \A j \in 1..(i - 1) : ~Offending(j)
              /\ Len(results) = i - 1
              /\ response.status = IF Violates(i) THEN 400 ELSE 500
              /\ Violates(i) => response.review_id = request.reviews[i].review_id

\* the second review is rejected after the first got its result: the
\* response is the error alone
C6_Witness ==
    /\ endpoint = "batch"
    /\ pc = "done"
    /\ NumReviews = 2
    /\ i = 2
    /\ Len(results) = 1
    /\ Violates(2)
    /\ response.status = 400
    /\ response.review_id = "batch2"

(***************************************************************************)
(* C7: when no review of a batch is rejected and no classification raises, *)
(* the response has as many results as the request has reviews, and        *)
(* results[k] is the analysis of reviews[k]: its review_id and source, its *)
(* truncated flag, the classifier's answer for it; the pipeline is called  *)
(* for the reviews in input order.                                         *)
(***************************************************************************)
C7_BatchOrderPreserved ==
    endpoint = "batch" =>
        /\ \A p \in 1..Len(calls) : calls[p].item = p
        /\ \A k \in 1..Len(results) :
              /\ results[k].review_id = request.reviews[k].review_id
              /\ results[k].source = request.reviews[k].source
              /\ results[k].truncated =
                    (OverLimit(k) /\ request.reviews[k].truncate)
              /\ results[k].sentiment =
                    (IF oracle[k].label = "POSITIVE" THEN "positive" ELSE "negative")
              /\ results[k].confidence = oracle[k].score
        /\ (pc = "done" /\ \A k \in 1..NumReviews : ~Offending(k)) =>
              /\ response.status = 200
              /\ Len(response.results) = NumReviews
              /\ response.results = results

\* two reviews with different analyses, each at its own place
C7_Witness ==
    /\ endpoint = "batch"
    /\ pc = "done"
    /\ response.status = 200
    /\ NumReviews = 2
    /\ response.results[1].truncated
    /\ ~response.results[2].truncated
    /\ response.results[1].sentiment = "negative"
    /\ response.results[2].sentiment = "positive"
    /\ response.results[1].review_id = "batch1"
    /\ response.results[2].review_id = "batch2"

(***************************************************************************)
(* C8 as stated: when a request ends with a length-policy error, the       *)
(* pipeline was not called at all during the request, also when the        *)
(* violating review is not the first of its batch.                         *)
(* Fails: the reviews before the violating one were classified already.    *)
(***************************************************************************)
C8_NoInferenceBeforeLengthError ==
    (pc = "done" /\ response.status = 400) => calls = <<>>

(***************************************************************************)
(* C8 amended: when a request ends with a length-policy error, the         *)
(* pipeline was called neither for the violating review nor for any review *)
(* after it: not at all on POST /analyze, and on POST /analyze/batch once  *)
(* for each review before the violating one.                               *)
(***************************************************************************)
C8_NoInferenceFromViolationOn ==
    (pc = "done" /\ response.status = 400) =>
        /\ \A p \in 1..Len(calls) : calls[p].item < i
        /\ \A k \in 1..(i - 1) : Cardinality(CallsFor(k)) = 1
        /\ endpoint = "analyze" => calls = <<>>

\* the second review of a batch is rejected; the first was classified
C8_Witness ==
    /\ endpoint = "batch"
    /\ pc = "done"
    /\ response.status = 400
    /\ i = 2
    /\ Len(calls) = 1
    /\ calls[1].item = 1

(***************************************************************************)
(* C9: the length policy looks at the cleaned text: a review whose cleaned *)
(* text has at most 250 words is never rejected and is reported with       *)
(* truncated = false (truncated is true only when the text was cut before  *)
(* the analysis), whatever the word count of its raw text.                 *)
(***************************************************************************)
C9_PolicyOnCleanedText ==
    \A k \in Reached :
        CleanWords(k) <= WordLimit =>
            /\ "Rejected" \notin Range(stages[k])
            /\ HasResult(k) => ~ResultOf(k).truncated

(***************************************************************************)
(* C10 as stated: for a label POSITIVE or NEGATIVE and a score in [0,1],   *)
(* confidence = score, normalized_score is in [-1,1], sentiment positive   *)
(* gives normalized_score >= 0 and sentiment negative gives                *)
(* normalized_score < 0.                                                   *)
(* Fails: NEGATIVE with score 0 gives normalized_score = -0 = 0.           *)
(***************************************************************************)
C10_SignMatchesSentiment ==
    mapped.sentiment # "none" =>
        /\ mapped.confidence = raw_result.score
        /\ mapped.normalized_score >= 0 - ScoreScale
        /\ mapped.normalized_score <= ScoreScale
        /\ mapped.sentiment = "positive" => mapped.normalized_score >= 0
        /\ mapped.sentiment = "negative" => mapped.normalized_score < 0

(***************************************************************************)
(* C10 amended: confidence = score, normalized_score is in [-1,1],         *)
(* sentiment positive gives normalized_score >= 0 and sentiment negative   *)
(* gives normalized_score <= 0, both strictly when score > 0.              *)
(***************************************************************************)
C10_SignMatchesSentimentOrZero ==
    mapped.sentiment # "none" =>
        /\ mapped.sentiment \in {"positive", "negative"}
        /\ mapped.sentiment = "positive" <=> raw_result.label = "POSITIVE"
        /\ mapped.confidence = raw_result.score
        /\ mapped.normalized_score >= 0 - ScoreScale
        /\ mapped.normalized_score <= ScoreScale
        /\ mapped.sentiment = "positive" =>
              /\ mapped.normalized_score >= 0
              /\ raw_result.score > 0 => mapped.normalized_score > 0
        /\ mapped.sentiment = "negative" =>
              /\ mapped.normalized_score <= 0
              /\ raw_result.score > 0 => mapped.normalized_score < 0

\* NEGATIVE with score 1.0 is mapped to normalized_score -1.0
C10_Witness ==
    /\ raw_result.label = "NEGATIVE"
    /\ raw_result.score = ScoreScale
    /\ mapped.sentiment = "negative"
    /\ mapped.normalized_score = 0 - ScoreScale

(***************************************************************************)
(* C11: for every classifier output, detailed_scores has exactly the keys  *)
(* POSITIVE and NEGATIVE, the entry of the winning label is the score and  *)
(* the entry of the other label is 1 - score, so the two entries add up to *)
(* 1 and both lie in [0,1].                                                *)
(***************************************************************************)
C11_DetailedScoresComplement ==
    mapped.sentiment # "none" =>
        LET detailed == mapped.detailed_scores
            winner   == raw_result.label
            loser    == IF winner = "POSITIVE" THEN "NEGATIVE" ELSE "POSITIVE"
        IN  /\ DOMAIN detailed = {"POSITIVE", "NEGATIVE"}
            /\ detailed[winner] = raw_result.score
            /\ detailed[loser] = ScoreScale - raw_result.score
            /\ detailed["POSITIVE"] + detailed["NEGATIVE"] = ScoreScale
            /\ \A key \in DOMAIN detailed : detailed[key] \in 0..ScoreScale

\* NEGATIVE with score 0.75 is mapped to NEGATIVE 0.75 and POSITIVE 0.25
C11_Witness ==
    /\ raw_result.label = "NEGATIVE"
    /\ raw_result.score = (3 * ScoreScale) \div 4
    /\ mapped.sentiment = "negative"
    /\ mapped.detailed_scores["NEGATIVE"] = (3 * ScoreScale) \div 4
    /\ mapped.detailed_scores["POSITIVE"] = ScoreScale - (3 * ScoreScale) \div 4

(***************************************************************************)
(* C12 as stated: text normalization is idempotent, for every string x     *)
(* preprocess_text(preprocess_text(x)) = preprocess_text(x); the result of *)
(* one pass holds nothing a second pass removes: no URL, no HTML tag, no   *)
(* filtered special character, no extra whitespace.                        *)
(* Fails: "www&.X" is cleaned to "www.x", and "www.x" is cleaned to "".    *)
(***************************************************************************)
C12_NormalizeIdempotent ==
    /\ Len(norm_passes) >= 1 =>
          LET once == norm_passes[1]
          IN  /\ str_lower(once) = once
              /\ sub_tags(once) = once
              /\ sub_urls(once) = once
              /\ sub_special(once) = once
              /\ str_strip(sub_spaces(once)) = once
    /\ Len(norm_passes) = 2 => norm_passes[2] = norm_passes[1]

(***************************************************************************)
(* C13 as stated: for every review r and a deterministic classifier, POST  *)
(* /analyze with r and POST /analyze/batch with reviews = [r] either both  *)
(* fail with HTTP 400, or both succeed with the same text given to the     *)
(* model and the same sentiment, confidence, normalized_score,             *)
(* detailed_scores, truncated, review_id and source.                       *)
(* Fails: when the classifier raises on the text, both fail with HTTP 500. *)
(***************************************************************************)
C13_SingleAndBatchAgree ==
    (single_before # NoSingle /\ pc = "done") =>
        LET one == single_before.response
        IN  \/ one.status = 400 /\ response.status = 400
            \/ /\ one.status = 200
               /\ response.status = 200
               /\ Len(calls) = 1
               /\ calls = single_before.calls
               /\ response.results = <<one.result>>

(***************************************************************************)
(* C13 amended: for every review r and a deterministic classifier, POST    *)
(* /analyze with r and POST /analyze/batch with reviews = [r] either both  *)
(* fail, with HTTP 400 when r has more than 250 words and truncate false   *)
(* and with HTTP 500 when the classifier raises on the text, or both       *)
(* succeed with the same text given to the model and the same sentiment,   *)
(* confidence, normalized_score, detailed_scores, truncated, review_id and *)
(* source.                                                                 *)
(***************************************************************************)
C13_SingleAndBatchAgreeOrBothFail ==
    (single_before # NoSingle /\ pc = "done") =>
        LET one == single_before.response
        IN  \/ /\ Violates(1)
               /\ one.status = 400
               /\ response.status = 400
               /\ single_before.calls = <<>>
               /\ calls = <<>>
            \/ /\ ~Violates(1)
               /\ oracle[1] = Raise
               /\ one.status = 500
               /\ response.status = 500
               /\ calls = single_before.calls
            \/ /\ ~Violates(1)
               /\ oracle[1] \notin {Raise, NoResult}
               /\ one.status = 200
               /\ response.status = 200
               /\ Len(calls) = 1
               /\ calls = single_before.calls
               /\ response.results = <<one.result>>

\* a review of 800 words was cut to 500 words by analyze_sentiment and to
\* 250 words by analyze_batch; both answered 200 with the same result
C13_Witness ==
    /\ single_before # NoSingle
    /\ pc = "done"
    /\ RawWords(1) > SingleCut
    /\ single_before.response.status = 200
    /\ response.status = 200
    /\ response.results = <<single_before.response.result>>
    /\ response.results[1].truncated
    /\ Len(calls) = 1
    /\ WordCount(calls[1].text) = AnalyzerLimit
    /\ calls = single_before.calls

====
